---- MODULE Spec2Model ----
(***************************************************************************)
(* Model of Code/matrix_generator.py: the clause matcher, the reference    *)
(* table loader, the compliance matrix builder, the Word paragraph         *)
(* highlighter and the main driver.                                        *)
(*                                                                         *)
(* A Python str is a sequence of one-character strings.  A regular         *)
(* expression \b + re.escape(c) + \b is modelled by what it matches: the   *)
(* literal c at a position with a word boundary on both sides.             *)
(***************************************************************************)
EXTENDS Integers, Sequences, FiniteSets, TLC

VARIABLES
  pc,             \* position of the running function / of main
  text,           \* the extracted text handed to find_clauses_from_db
  known_clauses,  \* master_clauses / known_clauses: list of identifiers
  found_clauses,  \* the list find_clauses_from_db returned (or was handed on)
  para_in,        \* runs of the paragraph before _apply_highlights_to_paragraph
  paragraph,      \* runs of the paragraph now
  clears,         \* number of paragraph.clear() calls made
  db_files,       \* the files of the Database folder, in os.listdir order
  master_df,      \* the merged table, or None
  matrix_df,      \* the table generate_compliance_matrix returned
  doc_files,      \* the documents of the Solicitations folder
  idx,            \* main: index of the document being processed
  artifacts,      \* main: output files written so far
  processed,      \* main: documents whose loop iteration has ended
  log             \* main: what was reported, per document

vars == <<pc, text, known_clauses, found_clauses, para_in, paragraph, clears,
          db_files, master_df, matrix_df, doc_files, idx, artifacts, processed,
          log>>

\* A pandas DataFrame is the sequence of its rows; None is the frame that is
\* absent.
None == [is_none |-> TRUE, rows |-> <<>>]

DataFrame(rows) == [is_none |-> FALSE, rows |-> rows]

(***************************************************************************)
(* Characters                                                              *)
(***************************************************************************)

\* The characters used, in code point order (Python compares str by code point).
CodePoints ==
  <<"\n", " ", "(", ")", "*", "-", ".", "1", "2", "4", "5", "6", "9",
    "C", "T", "_", "a", "d", "e", "i", "l", "n", "s", "t", "u", "x">>

Code(c) == CHOOSE i \in 1..Len(CodePoints) : CodePoints[i] = c

Digits == {"1", "2", "4", "5", "6", "9"}

Letters == {"C", "T", "a", "d", "e", "i", "l", "n", "s", "t", "u", "x"}

\* \w of the re module: letters, digits and the underscore.
IsWord(c) == c \in Digits \cup Letters \cup {"_"}

\* \s of the re module and the characters str.strip() removes.
IsSpace(c) == c \in {" ", "\n"}

(***************************************************************************)
(* Sequences                                                               *)
(***************************************************************************)

\* Op applied to the value of x: x is evaluated once, however often Op uses
\* its parameter.
Apply(Op(_), x) == CHOOSE r \in {Op(v) : v \in {x}} : TRUE

RECURSIVE Concat(_)
\* ''.join(parts)
Concat(parts) ==
  IF parts = <<>> THEN <<>> ELSE Head(parts) \o Concat(Tail(parts))

SeqsUpTo(S, n) == UNION {[1..k -> S] : k \in 0..n}

Range(s) == {s[i] : i \in 1..Len(s)}

RECURSIVE StrLess(_, _)
\* a < b on Python str
StrLess(a, b) ==
  IF b = <<>> THEN FALSE
  ELSE IF a = <<>> THEN TRUE
  ELSE IF Head(a) # Head(b) THEN Code(Head(a)) < Code(Head(b))
  ELSE StrLess(Tail(a), Tail(b))

RECURSIVE Insert(_, _)
\* x put into the ascending list s, before the elements that are not below it
Insert(x, s) ==
  IF s = <<>> THEN <<x>>
  ELSE IF StrLess(Head(s), x) THEN <<Head(s)>> \o Insert(x, Tail(s))
  ELSE <<x>> \o s

RECURSIVE sorted(_)
\* sorted(list of str): ascending, stable
sorted(s) ==
  IF s = <<>> THEN <<>>
  ELSE Apply(LAMBDA rest : Insert(Head(s), rest), sorted(Tail(s)))

(***************************************************************************)
(* The word-boundary pattern                                               *)
(***************************************************************************)

\* \b at the gap before t[i] (i in 1..Len(t)+1): exactly one side is a word
\* character; outside the string counts as a non-word character.
WordBoundary(t, i) ==
  LET before == i > 1 /\ IsWord(t[i - 1])
      after  == i <= Len(t) /\ IsWord(t[i])
  IN  before # after

\* The escaped literal c matches t at position i.
LiteralAt(c, t, i) ==
  /\ i >= 1
  /\ i + Len(c) - 1 <= Len(t)
  /\ SubSeq(t, i, i + Len(c) - 1) = c

\* \b + re.escape(c) + \b matches t at position i.
MatchAt(c, t, i) ==
  /\ WordBoundary(t, i)
  /\ LiteralAt(c, t, i)
  /\ WordBoundary(t, i + Len(c))

\* re.search(r'\b' + re.escape(c) + r'\b', t) is not None
re_search(c, t) == \E i \in 1..(Len(t) + 1) : MatchAt(c, t, i)

RECURSIVE Filter(_, _)
\* [c for c in clauses if re.search(pattern(c), t)]
Filter(clauses, t) ==
  IF clauses = <<>> THEN <<>>
  ELSE (IF re_search(Head(clauses), t) THEN <<Head(clauses)>> ELSE <<>>)
       \o Filter(Tail(clauses), t)

find_clauses_from_db(t, master_clauses) ==
  Apply(sorted, Filter(master_clauses, t))

(***************************************************************************)
(* Identifiers and text pieces                                             *)
(***************************************************************************)

id_52_2 == <<"5", "2", ".", "2">>

id_52_212 == <<"5", "2", ".", "2", "1", "2">>

id_52_212_4 == <<"5", "2", ".", "2", "1", "2", "-", "4">>

id_52_219_6 == <<"5", "2", ".", "2", "1", "9", "-", "6">>

id_52_2_a == <<"5", "2", ".", "2", "(", "a", ")">>

p_a == <<"(", "a", ")">>

p_and == <<" ", "a", "n", "d", " ">>

p_dash4 == <<"-", "4">>

p_dot == <<".">>

\* The pieces texts are put together from.
Pieces ==
  {id_52_2, id_52_212, id_52_212_4, id_52_219_6, p_a, p_and, p_dash4, p_dot}

MaxTextPieces == 4

Texts == {Concat(ps) : ps \in SeqsUpTo(Pieces, MaxTextPieces)}

\* The identifier lists a reference table can give.
KnownLists ==
  { <<id_52_212_4, id_52_219_6>>,
    <<id_52_219_6, id_52_2, id_52_212_4, id_52_212>>,
    <<id_52_2_a, id_52_212_4, id_52_2>> }

(***************************************************************************)
(* The clause matcher on its own                                           *)
(***************************************************************************)

InitMatch ==
  /\ pc = "match"
  /\ text \in Texts
  /\ known_clauses \in KnownLists
  /\ found_clauses = <<>>
  /\ para_in = <<>>
  /\ paragraph = <<>>
  /\ clears = 0
  /\ db_files = <<>>
  /\ master_df = None
  /\ matrix_df = None
  /\ doc_files = <<>>
  /\ idx = 0
  /\ artifacts = {}
  /\ processed = {}
  /\ log = {}

FindClauses ==
  /\ pc = "match"
  /\ found_clauses' = find_clauses_from_db(text, known_clauses)
  /\ pc' = "matched"
  /\ UNCHANGED <<text, known_clauses, para_in, paragraph, clears, db_files,
                 master_df, matrix_df, doc_files, idx, artifacts, processed,
                 log>>

NextMatch == FindClauses

SpecMatch == InitMatch /\ [][NextMatch]_vars

(***************************************************************************)
(* The Word paragraph highlighter                                          *)
(***************************************************************************)

RECURSIVE FirstAlternative(_, _, _)
\* The alternative of \b(?:a1|a2|...)\b that matches t at position i: the
\* first one, in the order of the pattern, that matches with both boundaries
\* (the regex engine backtracks into the next alternative), or the empty
\* string when none does (an identifier is never empty).
FirstAlternative(alts, t, i) ==
  IF alts = <<>> THEN <<>>
  ELSE IF MatchAt(Head(alts), t, i) THEN Head(alts)
  ELSE FirstAlternative(Tail(alts), t, i)

RECURSIVE SplitFrom(_, _, _, _)
\* re.split scanning from position i, the pending piece starting at start:
\* the leftmost match is found, the text before it and the captured group
\* are emitted, and the scan goes on after the match.
SplitFrom(alts, t, i, start) ==
  IF i > Len(t) THEN <<SubSeq(t, start, Len(t))>>
  ELSE Apply(LAMBDA m :
               IF m = <<>>
               THEN SplitFrom(alts, t, i + 1, start)
               ELSE <<SubSeq(t, start, i - 1), m>>
                    \o SplitFrom(alts, t, i + Len(m), i + Len(m)),
             FirstAlternative(alts, t, i))

\* The same scan for a pattern without the capturing parentheses: re.split
\* then drops the separators.
SplitFromNoCapture(alts, t, i, start) ==
  Apply(LAMBDA all : [k \in 1..((Len(all) + 1) \div 2) |-> all[2 * k - 1]],
        SplitFrom(alts, t, i, start))

re_split_nocapture(alts, t) == SplitFromNoCapture(alts, t, 1, 1)

\* re.split(r'(\b(?:' + '|'.join(map(re.escape, alts)) + r')\b)', t)
re_split(alts, t) == SplitFrom(alts, t, 1, 1)

\* paragraph.text: the texts of the runs, joined
ParagraphText(runs) == Apply(Concat, [k \in 1..Len(runs) |-> runs[k].text])

RECURSIVE AddRuns(_, _)
\* The redraw loop: empty parts are skipped, every other part becomes a run,
\* highlighted when the part is one of the clauses of the paragraph.
AddRuns(parts, clauses_in_para) ==
  IF parts = <<>> THEN <<>>
  ELSE (IF Head(parts) = <<>> THEN <<>>
        ELSE <<[text |-> Head(parts),
                highlight |-> Head(parts) \in Range(clauses_in_para)]>>)
       \o AddRuns(Tail(parts), clauses_in_para)

\* A faulty variant of the guard: the paragraph is redrawn whatever it holds.
apply_highlights_always(runs, found) ==
  Apply(LAMBDA original_text :
          [runs |-> AddRuns(<<original_text>>, <<>>), cleared |-> 1],
        ParagraphText(runs))

\* _apply_highlights_to_paragraph(paragraph, found_clauses): the runs of the
\* paragraph afterwards and the number of paragraph.clear() calls.
apply_highlights_to_paragraph(runs, found) ==
  Apply(LAMBDA original_text :
    Apply(LAMBDA clauses_in_para :
      IF clauses_in_para # <<>>
      THEN [runs |-> Apply(LAMBDA parts : AddRuns(parts, clauses_in_para),
                           re_split(clauses_in_para, original_text)),
            cleared |-> 1]
      ELSE [runs |-> runs, cleared |-> 0],
      Filter(found, original_text)),
    ParagraphText(runs))

MaxParaPieces == 3

\* A paragraph as the document holds it: one plain run per piece.
Paragraphs ==
  {[k \in 1..Len(ps) |-> [text |-> ps[k], highlight |-> FALSE]] :
     ps \in SeqsUpTo(Pieces, MaxParaPieces)}

\* The found_clauses lists handed to the highlighter.
FoundLists ==
  { <<>>,
    <<id_52_212_4, id_52_219_6>>,
    <<id_52_2, id_52_212, id_52_212_4, id_52_219_6>>,
    <<id_52_212_4, id_52_212>>,
    <<id_52_2, id_52_2_a>>,
    <<id_52_219_6>> }

InitPara ==
  /\ pc = "highlight"
  /\ para_in \in Paragraphs
  /\ paragraph = para_in
  /\ found_clauses \in FoundLists
  /\ clears = 0
  /\ text = <<>>
  /\ known_clauses = <<>>
  /\ db_files = <<>>
  /\ master_df = None
  /\ matrix_df = None
  /\ doc_files = <<>>
  /\ idx = 0
  /\ artifacts = {}
  /\ processed = {}
  /\ log = {}

ApplyHighlights ==
  /\ pc = "highlight"
  /\ LET r == apply_highlights_to_paragraph(paragraph, found_clauses)
     IN  /\ paragraph' = r.runs
         /\ clears' = clears + r.cleared
  /\ pc' = "highlighted"
  /\ UNCHANGED <<text, known_clauses, found_clauses, para_in, db_files,
                 master_df, matrix_df, doc_files, idx, artifacts, processed,
                 log>>

NextPara == ApplyHighlights

SpecPara == InitPara /\ [][NextPara]_vars

(***************************************************************************)
(* The reference table: clean_headers and load_databases                   *)
(***************************************************************************)

CLAUSE_COL_NAME == <<"C", "l", "a", "u", "s", "e">>

\* The length a Clause value must stay under.
ClauseMaxLen == 30

\* str.replace('\n', ' ')
ReplaceNewlines(s) == [k \in 1..Len(s) |-> IF s[k] = "\n" THEN " " ELSE s[k]]

\* str.replace('*', '')
RemoveStars(s) == SelectSeq(s, LAMBDA c : c # "*")

\* str.lstrip(): from the first character that is not whitespace
lstrip(s) ==
  LET solid == {k \in 1..Len(s) : ~IsSpace(s[k])}
  IN  IF solid = {} THEN <<>>
      ELSE SubSeq(s, CHOOSE a \in solid : \A k \in solid : a <= k, Len(s))

\* str.rstrip(): up to the last character that is not whitespace
rstrip(s) ==
  LET solid == {k \in 1..Len(s) : ~IsSpace(s[k])}
  IN  IF solid = {} THEN <<>>
      ELSE SubSeq(s, 1, CHOOSE b \in solid : \A k \in solid : k <= b)

\* A faulty variant of str.strip(): only the left side is stripped.
strip_left_only(s) == lstrip(s)

\* str.strip()
strip(s) == Apply(rstrip, lstrip(s))

\* re.sub(r'\s+', ' ', c): of every run of whitespace the first character is
\* kept, as one space.
CollapseSpaces(s) ==
  LET kept == SelectSeq([k \in 1..Len(s) |-> k],
                        LAMBDA k : ~IsSpace(s[k]) \/ k = 1 \/ ~IsSpace(s[k - 1]))
  IN  [j \in 1..Len(kept) |-> IF IsSpace(s[kept[j]]) THEN " " ELSE s[kept[j]]]

\* clean_headers, for one column name
clean_header(col) ==
  Apply(CollapseSpaces, Apply(strip, Apply(RemoveStars, ReplaceNewlines(col))))

\* str.contains(r'\d')
ContainsDigit(s) == \E k \in 1..Len(s) : s[k] \in Digits

RECURSIVE FilterRows(_)
\* The two row filters of load_databases, on rows whose Clause is stripped.
FilterRows(rows) ==
  IF rows = <<>> THEN <<>>
  ELSE (IF ContainsDigit(Head(rows).Clause) /\ Len(Head(rows).Clause) < ClauseMaxLen
        THEN <<Head(rows)>> ELSE <<>>)
       \o FilterRows(Tail(rows))

\* The loop body of load_databases for one file: the list of data frames it
\* appends (one frame, or nothing for a file that is skipped, cannot be
\* read or has no Clause column).
LoadFile(file) ==
  IF file.status # "table" THEN <<>>
  ELSE IF clean_header(file.header) = CLAUSE_COL_NAME
       THEN <<Apply(FilterRows,
                    [k \in 1..Len(file.rows) |->
                       [Clause |-> strip(file.rows[k].Clause),
                        Title  |-> file.rows[k].Title]])>>
       ELSE <<>>

RECURSIVE LoadAll(_)
LoadAll(files) ==
  IF files = <<>> THEN <<>> ELSE LoadFile(Head(files)) \o LoadAll(Tail(files))

\* load_databases(db_dir): None, or the frames concatenated.
load_databases(files) ==
  Apply(LAMBDA all_dataframes :
          IF all_dataframes = <<>> THEN None
          ELSE DataFrame(Concat(all_dataframes)),
        LoadAll(files))

RECURSIVE UniqueUpTo(_, _)
\* The values of s[1..n] in order of first appearance.
UniqueUpTo(s, n) ==
  IF n = 0 THEN <<>>
  ELSE Apply(LAMBDA u : IF s[n] \in Range(u) THEN u ELSE Append(u, s[n]),
             UniqueUpTo(s, n - 1))

\* Series.unique().tolist()
Unique(s) == UniqueUpTo(s, Len(s))

\* master_df['Clause'].unique().tolist()
KnownClauses(df) ==
  Apply(Unique, [k \in 1..Len(df.rows) |-> df.rows[k].Clause])

(***************************************************************************)
(* The compliance matrix                                                   *)
(***************************************************************************)

RECURSIVE RowsWith(_, _)
\* master_df[master_df['Clause'] == clause], in the order of the table
RowsWith(rows, clause) ==
  IF rows = <<>> THEN <<>>
  ELSE (IF Head(rows).Clause = clause THEN <<Head(rows)>> ELSE <<>>)
       \o RowsWith(Tail(rows), clause)

RECURSIVE MatrixRows(_, _)
\* The loop over found_clauses that collects matrix_rows.
MatrixRows(found, df) ==
  IF found = <<>> THEN <<>>
  ELSE RowsWith(df.rows, Head(found)) \o MatrixRows(Tail(found), df)

\* DataFrame.sort_values(by='Clause') with the default kind='quicksort',
\* which is not a stable sort: the result is ascending by Clause and the
\* order of rows with equal Clause is whatever the library's sort leaves.
sort_values(rows) ==
  LET n == Len(rows)
      ascending(q) ==
        \A i \in 1..n : \A j \in 1..n :
          i < j => ~StrLess(rows[q[j]].Clause, rows[q[i]].Clause)
  IN  {DataFrame([k \in 1..n |-> rows[q[k]]]) :
         q \in {r \in Permutations(1..n) : ascending(r)}}

\* The first row of every Clause value.
DropDuplicates(rows) ==
  SelectSeq(rows, LAMBDA r :
    r = rows[CHOOSE k \in 1..Len(rows) :
               /\ rows[k].Clause = r.Clause
               /\ \A j \in 1..(k - 1) : rows[j].Clause # r.Clause])

\* A faulty variant of the matrix builder: one row per identifier.
generate_compliance_matrix_dedup(found, df) ==
  IF df = None THEN {None}
  ELSE Apply(sort_values, Apply(DropDuplicates, MatrixRows(found, df)))

\* generate_compliance_matrix(found_clauses, master_df): the results it can
\* return.
generate_compliance_matrix(found, df) ==
  IF df = None THEN {None} ELSE Apply(sort_values, MatrixRows(found, df))

(***************************************************************************)
(* Reference files                                                         *)
(***************************************************************************)

Rep(n, c) == [k \in 1..n |-> c]

h_messy == <<" ", "*", "C", "l", "a", "u", "s", "e", "\n">>

h_split == <<"C", "l", "\n", "\n", "a", "u", "s", "e">>

h_title == <<"T", "i", "t", "l", "e">>

Headers == {CLAUSE_COL_NAME, h_messy, h_split, h_title}

v_padded == <<" ">> \o id_52_212_4 \o <<" ">>

v_nan == <<"n", "a", "n">>

v_spaced == <<" ", "5", " ", " ", "9", "\n">>

\* ClauseMaxLen - 1 characters
v_under == Rep(ClauseMaxLen - 2, "x") \o <<"5">>

\* ClauseMaxLen characters
v_at == Rep(ClauseMaxLen - 1, "x") \o <<"5">>

\* ClauseMaxLen + 1 characters, ClauseMaxLen - 1 once stripped
v_under_padded == <<"\n">> \o v_under \o <<" ">>

\* a narrative of ClauseMaxLen + 10 characters
v_narrative == <<"1">> \o Rep(ClauseMaxLen + 9, "a")

RawValues ==
  {v_padded, id_52_212_4, id_52_219_6, v_nan, v_spaced, v_under, v_at,
   v_under_padded, v_narrative, <<>>}

MaxRows == 2

MaxFiles == 2

\* One reference file with every choice of header and of rows.
SingleFiles ==
  {[status |-> "table", header |-> h,
    rows |-> [k \in 1..Len(vs) |-> [Clause |-> vs[k], Title |-> "row-" \o ToString(k)]]] :
     h \in Headers, vs \in SeqsUpTo(RawValues, MaxRows)}

f_far ==
  [status |-> "table", header |-> CLAUSE_COL_NAME,
   rows |-> <<[Clause |-> id_52_219_6, Title |-> "far-a"],
              [Clause |-> v_padded,    Title |-> "far-b"],
              [Clause |-> v_narrative, Title |-> "far-c"]>>]

f_dfars ==
  [status |-> "table", header |-> h_messy,
   rows |-> <<[Clause |-> id_52_212_4, Title |-> "dfars-a"],
              [Clause |-> id_52_212,   Title |-> "dfars-b"]>>]

f_notes ==
  [status |-> "table", header |-> h_title,
   rows |-> <<[Clause |-> id_52_212_4, Title |-> "notes-a"]>>]

f_hidden == [status |-> "skipped", header |-> CLAUSE_COL_NAME, rows |-> <<>>]

f_broken == [status |-> "error", header |-> CLAUSE_COL_NAME, rows |-> <<>>]

FixtureFiles == {f_far, f_dfars, f_notes, f_hidden, f_broken}

Directories ==
  {<<f>> : f \in SingleFiles} \cup SeqsUpTo(FixtureFiles, MaxFiles)

\* The identifiers a MatchSet is drawn from.
MatchPool == {id_52_212, id_52_212_4, id_52_219_6, v_under}

RECURSIVE SetToSeq(_)
SetToSeq(S) ==
  IF S = {} THEN <<>>
  ELSE LET x == CHOOSE y \in S : TRUE IN <<x>> \o SetToSeq(S \ {x})

MatchLists == {sorted(SetToSeq(S)) : S \in SUBSET MatchPool}

InitLoad ==
  /\ pc = "load"
  /\ db_files \in Directories
  /\ master_df = None
  /\ matrix_df = None
  /\ known_clauses = <<>>
  /\ found_clauses = <<>>
  /\ text = <<>>
  /\ para_in = <<>>
  /\ paragraph = <<>>
  /\ clears = 0
  /\ doc_files = <<>>
  /\ idx = 0
  /\ artifacts = {}
  /\ processed = {}
  /\ log = {}

LoadDatabases ==
  /\ pc = "load"
  /\ master_df' = load_databases(db_files)
  /\ known_clauses' =
       IF master_df' = None THEN <<>> ELSE KnownClauses(master_df')
  /\ pc' = "loaded"
  /\ UNCHANGED <<text, found_clauses, para_in, paragraph, clears, db_files,
                 matrix_df, doc_files, idx, artifacts, processed,
                 log>>

GenerateMatrix ==
  /\ pc = "loaded"
  /\ \E found \in MatchLists :
       /\ found_clauses' = found
       /\ matrix_df' \in generate_compliance_matrix(found, master_df)
  /\ pc' = "matrix"
  /\ UNCHANGED <<text, known_clauses, para_in, paragraph, clears, db_files,
                 master_df, doc_files, idx, artifacts, processed,
                 log>>

NextLoad == LoadDatabases \/ GenerateMatrix

SpecLoad == InitLoad /\ [][NextLoad]_vars

(***************************************************************************)
(* main                                                                    *)
(***************************************************************************)

\* A document: its extension and the runs of its paragraphs (for a PDF, of
\* its pages).
d_scenario ==
  [ext |-> "docx",
   paras |-> << <<[text |-> id_52_212_4 \o p_and, highlight |-> FALSE],
                  [text |-> id_52_219_6 \o p_a, highlight |-> FALSE]>>,
                <<[text |-> p_a, highlight |-> FALSE]>> >>]

d_pdf ==
  [ext |-> "pdf",
   paras |-> << <<[text |-> id_52_212 \o p_dot, highlight |-> FALSE]>> >>]

d_plain ==
  [ext |-> "docx",
   paras |-> << <<[text |-> p_and \o p_a, highlight |-> FALSE]>> >>]

d_blank == [ext |-> "pdf", paras |-> <<>>]

DocPool == {d_scenario, d_pdf, d_plain, d_blank}

MaxDocs == 2

MainDirectories == {<<>>, <<f_notes, f_hidden>>, <<f_dfars>>, <<f_far, f_dfars>>}

\* The text the extractor returns for a document it can read: every
\* paragraph (page) followed by a newline.
DocText(doc) ==
  Apply(Concat,
        [k \in 1..Len(doc.paras) |-> ParagraphText(doc.paras[k]) \o <<"\n">>])

InitMain ==
  /\ pc = "main"
  /\ db_files \in MainDirectories
  /\ doc_files \in SeqsUpTo(DocPool, MaxDocs)
  /\ master_df = None
  /\ matrix_df = None
  /\ known_clauses = <<>>
  /\ found_clauses = <<>>
  /\ text = <<>>
  /\ para_in = <<>>
  /\ paragraph = <<>>
  /\ clears = 0
  /\ idx = 0
  /\ artifacts = {}
  /\ processed = {}
  /\ log = {}

\* The end of one iteration of the loop over doc_files (a continue, or the
\* end of the body): the next document, or the end of main.
NextDocument ==
  /\ processed' = processed \cup {idx}
  /\ idx' = idx + 1
  /\ pc' = IF idx < Len(doc_files) THEN "extract" ELSE "done"

\* main, up to the loop: the database is loaded; main returns when it is
\* None or when there is no document.
MainStart ==
  /\ pc = "main"
  /\ master_df' = load_databases(db_files)
  /\ IF master_df'.is_none
     THEN /\ pc' = "exit"
          /\ log' = log \cup {[doc |-> 0, event |-> "no_database"]}
          /\ UNCHANGED <<known_clauses, idx>>
     ELSE /\ known_clauses' = KnownClauses(master_df')
          /\ log' = log
          /\ IF doc_files = <<>>
             THEN pc' = "exit" /\ idx' = idx
             ELSE pc' = "extract" /\ idx' = 1
  /\ UNCHANGED <<text, found_clauses, para_in, paragraph, clears, db_files,
                 matrix_df, doc_files, artifacts, processed>>

\* The text is extracted; the extractor returns None when it fails, and None
\* and the empty text take the same branch (not text).
ExtractText ==
  /\ pc = "extract"
  /\ \E readable \in BOOLEAN :
       text' = IF readable THEN DocText(doc_files[idx]) ELSE <<>>
  /\ IF text' = <<>>
     THEN /\ NextDocument
          /\ log' = log \cup {[doc |-> idx, event |-> "no_text"]}
     ELSE /\ pc' = "find"
          /\ UNCHANGED <<idx, processed, log>>
  /\ UNCHANGED <<known_clauses, found_clauses, para_in, paragraph, clears,
                 db_files, master_df, matrix_df, doc_files, artifacts>>

\* A faulty variant of the matching step: an empty result does not skip the file.
FindStepNoSkip ==
  /\ pc = "find"
  /\ found_clauses' = find_clauses_from_db(text, known_clauses)
  /\ pc' = "excel"
  /\ UNCHANGED <<text, known_clauses, para_in, paragraph, clears, db_files,
                 master_df, matrix_df, doc_files, idx, artifacts, processed,
                 log>>

\* The clauses are matched; with none found the document is skipped.
FindStep ==
  /\ pc = "find"
  /\ found_clauses' = find_clauses_from_db(text, known_clauses)
  /\ IF found_clauses' = <<>>
     THEN /\ NextDocument
          /\ log' = log \cup {[doc |-> idx, event |-> "no_match"]}
     ELSE /\ pc' = "excel"
          /\ UNCHANGED <<idx, processed, log>>
  /\ UNCHANGED <<text, known_clauses, para_in, paragraph, clears, db_files,
                 master_df, matrix_df, doc_files, artifacts>>

\* A faulty variant of the spreadsheet step: no try/except around the save, so a
\* failure ends main.
SaveExcelUncaught ==
  /\ pc = "excel"
  /\ matrix_df' \in generate_compliance_matrix(found_clauses, master_df)
  /\ \E outcome \in {"saved", "write_failed"} :
       IF outcome = "saved"
       THEN /\ artifacts' = artifacts \cup {[doc |-> idx, kind |-> "xlsx"]}
            /\ pc' = "highlight"
            /\ log' = log
       ELSE /\ artifacts' = artifacts
            /\ pc' = "crashed"
            /\ log' = log \cup {[doc |-> idx, event |-> "excel_error"]}
  /\ UNCHANGED <<text, known_clauses, found_clauses, para_in, paragraph,
                 clears, db_files, master_df, doc_files, idx, processed>>

\* The matrix is built and saved.  to_excel can fail (nothing written), and
\* apply_color_coding can fail after the file was written; both are caught.
SaveExcel ==
  /\ pc = "excel"
  /\ matrix_df' \in generate_compliance_matrix(found_clauses, master_df)
  /\ \E outcome \in {"saved", "write_failed", "color_failed"} :
       /\ artifacts' =
            IF outcome = "write_failed" THEN artifacts
            ELSE artifacts \cup {[doc |-> idx, kind |-> "xlsx"]}
       /\ log' =
            IF outcome = "saved" THEN log
            ELSE log \cup {[doc |-> idx, event |-> "excel_error"]}
  /\ pc' = "highlight"
  /\ UNCHANGED <<text, known_clauses, found_clauses, para_in, paragraph,
                 clears, db_files, master_df, doc_files, idx, processed>>

RECURSIVE Cleared(_)
\* The number of paragraph.clear() calls over the paragraphs.
Cleared(results) ==
  IF results = <<>> THEN 0 ELSE Head(results).cleared + Cleared(Tail(results))

\* highlight_docx: every paragraph goes through
\* _apply_highlights_to_paragraph; the last paragraph's runs before and
\* after and the number of clear() calls are kept.
HighlightAll(paras, found) ==
  Apply(LAMBDA results :
          IF results = <<>>
          THEN [before |-> <<>>, after |-> <<>>, cleared |-> 0]
          ELSE [before  |-> paras[Len(paras)],
                after   |-> results[Len(results)].runs,
                cleared |-> Cleared(results)],
        [k \in 1..Len(paras) |-> apply_highlights_to_paragraph(paras[k], found)])

\* The highlighted copy is made: highlight_pdf or highlight_docx, each of
\* which catches its own failure and then saves nothing.  highlight_docx
\* saves after every paragraph went through the rewrite; it can fail when
\* the document is opened (no paragraph touched), between paragraphs, or in
\* the save itself, so a failure leaves any number n of the leading
\* paragraphs rewritten.
HighlightDocument ==
  /\ pc = "highlight"
  /\ \E doc \in {doc_files[idx]} :
       \E saved \in BOOLEAN :
         \E n \in (IF saved THEN {Len(doc.paras)} ELSE 0..Len(doc.paras)) :
           \E h \in {HighlightAll(SubSeq(doc.paras, 1, n), found_clauses)} :
             /\ IF doc.ext = "docx"
                THEN /\ para_in' = h.before
                     /\ paragraph' = h.after
                     /\ clears' = h.cleared
                ELSE UNCHANGED <<para_in, paragraph, clears>>
             /\ artifacts' =
                  IF saved THEN artifacts \cup {[doc |-> idx, kind |-> doc.ext]}
                  ELSE artifacts
             /\ log' =
                  IF saved THEN log
                  ELSE log \cup {[doc |-> idx, event |-> "highlight_error"]}
  /\ NextDocument
  /\ UNCHANGED <<text, known_clauses, found_clauses, db_files, master_df,
                 matrix_df, doc_files>>

NextMain ==
  \/ MainStart
  \/ ExtractText
  \/ FindStep
  \/ SaveExcel
  \/ HighlightDocument

SpecMain == InitMain /\ [][NextMain]_vars

\* main is one sequential thread: whenever it has a step to take it takes it.
FairMain == InitMain /\ [][NextMain]_vars /\ WF_vars(NextMain)

(***************************************************************************)
(* Claims about the clause matcher (SpecMatch)                             *)
(***************************************************************************)

ProperSubstring(a, b) ==
  /\ Len(a) < Len(b)
  /\ \E j \in 1..Len(b) : LiteralAt(a, b, j)

\* Every occurrence of a in t lies inside an occurrence of b in t.
OnlyInside(a, b, t) ==
  \A i \in 1..Len(t) :
    LiteralAt(a, t, i) =>
      \E j \in 1..Len(t) :
        LiteralAt(b, t, j) /\ j <= i /\ i + Len(a) <= j + Len(b)

\* C1: a known identifier that is a proper substring of another known
\* identifier, and occurs in the text only inside occurrences of that longer
\* identifier, is not in the result of find_clauses_from_db.
C1_SubstringNotReported ==
  pc = "matched" =>
    \A a \in Range(known_clauses) : \A b \in Range(known_clauses) :
      (ProperSubstring(a, b) /\ OnlyInside(a, b, text))
        => a \notin Range(found_clauses)

IsPunct(c) == c \in {"(", ")", "*", "-", "."}

\* c occurs in t at the start or after whitespace, and a punctuation
\* character follows it at once.
FollowedByPunct(c, t) ==
  \E i \in 1..Len(t) :
    /\ LiteralAt(c, t, i)
    /\ i = 1 \/ IsSpace(t[i - 1])
    /\ i + Len(c) <= Len(t)
    /\ IsPunct(t[i + Len(c)])

ScenarioText == id_52_212_4 \o p_and \o id_52_219_6 \o p_a

\* C2: a known identifier with an occurrence preceded by whitespace or the
\* start of the text and directly followed by a punctuation character is
\* reported; for the identifiers 52.212-4 and 52.219-6 and the text
\* "52.212-4 and 52.219-6(a)" the result is exactly these two.
C2_TrailingPunctuationReported ==
  pc = "matched" =>
    /\ \A c \in Range(known_clauses) :
         FollowedByPunct(c, text) => c \in Range(found_clauses)
    /\ (text = ScenarioText /\ known_clauses = <<id_52_212_4, id_52_219_6>>)
         => found_clauses = <<id_52_212_4, id_52_219_6>>

(***************************************************************************)
(* Claims about the paragraph highlighter (SpecPara)                       *)
(***************************************************************************)

\* C3: when the paragraph is rewritten, the texts of the runs added, joined
\* in order, are the paragraph's text, and no run added is empty.
C3_RoundTrip ==
  (pc = "highlighted" /\ clears > 0) =>
    /\ ParagraphText(paragraph) = ParagraphText(para_in)
    /\ \A k \in 1..Len(paragraph) : paragraph[k].text # <<>>

\* A rewritten paragraph with a plain run, a highlighted run and a plain run.
C3_Witness ==
  /\ pc = "highlighted"
  /\ clears = 1
  /\ \E k \in 2..(Len(paragraph) - 1) :
       /\ paragraph[k].highlight
       /\ ~paragraph[k - 1].highlight
       /\ ~paragraph[k + 1].highlight

\* Some identifier of the list occurs in t between word boundaries.
SomeTokenIn(found, t) ==
  \E c \in Range(found) : \E i \in 1..(Len(t) + 1) :
    /\ LiteralAt(c, t, i)
    /\ WordBoundary(t, i)
    /\ WordBoundary(t, i + Len(c))

\* C4: a paragraph in which no identifier of the found list occurs between
\* word boundaries is left as it was: never cleared, the same runs.
C4_UntouchedWhenAbsent ==
  (pc = "highlighted" /\ ~SomeTokenIn(found_clauses, ParagraphText(para_in)))
    => (paragraph = para_in /\ clears = 0)

\* A paragraph of several runs that holds an identifier of the list only
\* inside a longer token, after the call.
C4_Witness ==
  /\ pc = "highlighted"
  /\ Len(para_in) >= 2
  /\ ~SomeTokenIn(found_clauses, ParagraphText(para_in))
  /\ \E c \in Range(found_clauses) :
       \E i \in 1..Len(ParagraphText(para_in)) :
         LiteralAt(c, ParagraphText(para_in), i)
  /\ paragraph = para_in

\* The position in the paragraph's text at which run k starts.
RunStart(runs, k) == 1 + Len(ParagraphText(SubSeq(runs, 1, k - 1)))

\* C10: after a rewrite every occurrence between word boundaries of every
\* identifier of the list is highlighted in its entirety (it lies inside one
\* highlighted run), and every highlighted run is such an occurrence.
C10_OccurrencesAreHighlightedRuns ==
  (pc = "highlighted" /\ clears > 0) =>
    LET t == ParagraphText(para_in)
    IN  /\ \A c \in Range(found_clauses) : \A i \in 1..Len(t) :
             MatchAt(c, t, i) =>
               \E k \in 1..Len(paragraph) :
                 /\ paragraph[k].highlight
                 /\ RunStart(paragraph, k) <= i
                 /\ i + Len(c) <= RunStart(paragraph, k + 1)
        /\ \A k \in 1..Len(paragraph) :
             paragraph[k].highlight =>
               /\ paragraph[k].text \in Range(found_clauses)
               /\ MatchAt(paragraph[k].text, t, RunStart(paragraph, k))

(***************************************************************************)
(* Claims about the reference table and the matrix (SpecLoad)              *)
(***************************************************************************)

Count(r, rows) == Cardinality({k \in 1..Len(rows) : rows[k] = r})

\* C5: the rows of the matrix are the rows of the table whose Clause is in
\* the MatchSet, each as many times as the table holds it, and no others.
C5_MatrixIsTheMatchingRows ==
  (pc = "matrix" /\ ~master_df.is_none) =>
    /\ ~matrix_df.is_none
    /\ \A r \in Range(master_df.rows) \cup Range(matrix_df.rows) :
         Count(r, matrix_df.rows) =
           IF r.Clause \in Range(found_clauses)
           THEN Count(r, master_df.rows) ELSE 0

\* Two sources define the same identifier, the MatchSet holds it, the matrix
\* has both rows, and the table has a row the MatchSet leaves out.
C5_Witness ==
  /\ pc = "matrix"
  /\ Len(db_files) = 2
  /\ \E i \in 1..Len(matrix_df.rows) : \E j \in 1..Len(matrix_df.rows) :
       /\ i # j
       /\ matrix_df.rows[i].Clause = matrix_df.rows[j].Clause
       /\ matrix_df.rows[i].Title # matrix_df.rows[j].Title
  /\ \E k \in 1..Len(master_df.rows) :
       master_df.rows[k].Clause \notin Range(found_clauses)

\* v without its leading and trailing whitespace: the part of v from its
\* first to its last character that is not whitespace.
Trimmed(v) ==
  LET solid == {k \in 1..Len(v) : ~IsSpace(v[k])}
  IN  IF solid = {} THEN <<>>
      ELSE SubSeq(v, CHOOSE a \in solid : \A k \in solid : a <= k,
                     CHOOSE b \in solid : \A k \in solid : k <= b)

\* The admission rule: after trimming at least one digit and under 30
\* characters.
Admitted(v) ==
  /\ \E k \in 1..Len(Trimmed(v)) : Trimmed(v)[k] \in Digits
  /\ Len(Trimmed(v)) < 30

UsableSource(f) == f.status = "table" /\ clean_header(f.header) = CLAUSE_COL_NAME

RECURSIVE AdmittedRows(_)
AdmittedRows(rows) ==
  IF rows = <<>> THEN <<>>
  ELSE (IF Admitted(Head(rows).Clause)
        THEN <<[Clause |-> Trimmed(Head(rows).Clause), Title |-> Head(rows).Title]>>
        ELSE <<>>)
       \o AdmittedRows(Tail(rows))

RECURSIVE AdmittedTable(_)
AdmittedTable(files) ==
  IF files = <<>> THEN <<>>
  ELSE (IF UsableSource(Head(files)) THEN AdmittedRows(Head(files).rows) ELSE <<>>)
       \o AdmittedTable(Tail(files))

\* C6: the merged table holds, source after source, exactly the rows of the
\* usable sources whose trimmed Clause has a digit and fewer than 30
\* characters.
C6_RowAdmission ==
  (pc # "load" /\ ~master_df.is_none) =>
    master_df.rows = AdmittedTable(db_files)

\* A usable source with the row 52.212-4 and a narrative row of 40
\* characters: the first is kept, the second is not.
C6_Witness ==
  /\ pc = "loaded"
  /\ Len(db_files) = 1
  /\ UsableSource(db_files[1])
  /\ Len(db_files[1].rows) = 2
  /\ db_files[1].rows[1].Clause = id_52_212_4
  /\ Len(db_files[1].rows[2].Clause) = 40
  /\ Len(master_df.rows) = 1
  /\ master_df.rows[1].Clause = id_52_212_4

\* C8: the matrix is ascending by Clause, and the rows of one identifier
\* are in the order the table has them.
C8_SortedAndStable ==
  (pc = "matrix" /\ ~master_df.is_none) =>
    /\ \A i \in 1..Len(matrix_df.rows) : \A j \in 1..Len(matrix_df.rows) :
         i < j => ~StrLess(matrix_df.rows[j].Clause, matrix_df.rows[i].Clause)
    /\ \A c \in Range(found_clauses) :
         RowsWith(matrix_df.rows, c) = RowsWith(master_df.rows, c)

(***************************************************************************)
(* Claims about main (SpecMain, FairMain)                                  *)
(***************************************************************************)

\* C7: an output file exists for a document only if a source was usable,
\* the document has text, and a known identifier occurs in that text between
\* word boundaries; without a usable source nothing is written.
C7_ArtifactsOnlyWhenMatched ==
  /\ \A a \in artifacts :
       /\ \E k \in 1..Len(db_files) : UsableSource(db_files[k])
       /\ ~master_df.is_none
       /\ DocText(doc_files[a.doc]) # <<>>
       /\ SomeTokenIn(known_clauses, DocText(doc_files[a.doc]))
  /\ (pc # "main" /\ \A k \in 1..Len(db_files) : ~UsableSource(db_files[k]))
       => (artifacts = {} /\ pc = "exit")

\* Both files were written for the second document after the first, which
\* has text but no known identifier, was skipped.
C7_Witness ==
  /\ pc = "done"
  /\ [doc |-> 1, event |-> "no_match"] \in log
  /\ [doc |-> 2, kind |-> "xlsx"] \in artifacts
  /\ [doc |-> 2, kind |-> "docx"] \in artifacts
  /\ \A a \in artifacts : a.doc = 2

\* C9: once the database has loaded, every document of the list is
\* eventually processed.
C9_EveryDocumentProcessed ==
  [](( pc # "main" /\ ~master_df.is_none)
       => <>(processed = 1..Len(doc_files)))

\* main ended after a first document whose spreadsheet and highlighted copy
\* both failed, and after it the second document got its files.
C9_Witness ==
  /\ pc = "done"
  /\ processed = 1..Len(doc_files)
  /\ [doc |-> 1, event |-> "excel_error"] \in log
  /\ [doc |-> 1, event |-> "highlight_error"] \in log
  /\ \E a \in artifacts : a.doc = 2

====
